---- MODULE Spec2Model ----
(***************************************************************************)
(* API Ventas: the CRUD handlers and the two reports of crud.py / main.py  *)
(* over the four tables of models.py, on SQLite with foreign keys          *)
(* enforced (database.py).  One action is one HTTP request: the handler    *)
(* of main.py together with the crud function it calls, from the opening   *)
(* of the session to its commit or rollback.  The line item requests are   *)
(* modelled a second time statement by statement (SpecSesiones), for what  *)
(* requests running side by side can do.                                   *)
(*                                                                         *)
(* A table is a function from primary key to row.  A column that may hold  *)
(* NULL, and every value of a partial-update body, is an option: Null is   *)
(* <<>> and the integer or string v is <<v>>.  Columns declared            *)
(* nullable=False hold the bare value.  The columns uuid, fecha and        *)
(* created_at are written once by INSERT and neither read nor written by   *)
(* any handler afterwards; they are left out.                              *)
(***************************************************************************)
EXTENDS Integers, Sequences, FiniteSets, TLC

VARIABLES
    clientes,   \* table clientes:  id -> [nombre, email, rut, modified_at]
    productos,  \* table productos: id -> [nombre, categoria, precio, modified_at]
    ventas,     \* table ventas:    id -> [cliente_id, total, modified_at]
    detalles,   \* table detalles_ventas: id -> [producto_id, venta_id, precio,
                \*                               descuento, cantidad, modified_at]
    now,        \* the clock datetime.utcnow reads
    last,       \* the last request: [op, res, n], n the rows its transaction wrote
    reporte,    \* the last report: [limit, rows], the limit asked and the rows returned
    sesiones,   \* the line item requests in flight, one session (get_db) each
    cerrojo,    \* the session holding the write lock of the database file, or 0
    pendiente   \* ventas and detalles_ventas as the lock holder has written them

vars == <<clientes, productos, ventas, detalles, now, last, reporte,
          sesiones, cerrojo, pendiente>>
db == <<clientes, productos, ventas, detalles>>
\* A request modelled as one step runs between the steps of the sessions in
\* flight and leaves them alone.
conc == <<sesiones, cerrojo, pendiente>>

(***************************************************************************)
(* Bounds of the model.                                                    *)
(***************************************************************************)
MaxClientes == 2
MaxProductos == 2
MaxVentas == 2
MaxDetalles == 2
MaxLote == 2
MaxNow == 1
Pocos == 1
Muchos == 3
MaxSesiones == 2

(***************************************************************************)
(* Values.                                                                 *)
(***************************************************************************)
Null == <<>>
Some(v) == <<v>>

Max(S) == CHOOSE x \in S : \A y \in S : y <= x

Put(t, k, row) == [x \in DOMAIN t \cup {k} |-> IF x = k THEN row ELSE t[x]]
Del(t, S) == [x \in DOMAIN t \ S |-> t[x]]

\* The rowid SQLite gives an INSERT into a table whose key is INTEGER PRIMARY
\* KEY without AUTOINCREMENT: one more than the largest rowid in the table.
NextId(t) == IF DOMAIN t = {} THEN 1 ELSE Max(DOMAIN t) + 1

\* The loop as it would be over model_dump() without exclude_unset: a field
\* the body does not name is dumped as None and set too.
SetattrTodos(obj, data) == [f \in DOMAIN obj |-> IF f \in DOMAIN data THEN data[f] ELSE Null]

\* data.model_dump(exclude_unset=True) is a function from the fields the body
\* names to their values (an explicit null is a named field holding Null);
\* the setattr loop overwrites exactly those attributes of the loaded object.
\* obj holds every attribute as an option.
Setattr(obj, data) == [f \in DOMAIN obj |-> IF f \in DOMAIN data THEN data[f] ELSE obj[f]]

Resp(op, res, n) == [op |-> op, res |-> res, n |-> n]

\* A session with no request: SessionLocal() not yet called, or closed.
Ociosa == [pc |-> "idle", op |-> "", id |-> 0, venta_id |-> 0, data |-> <<>>,
           cargado |-> <<>>, suma |-> 0]
SinReporte == [limit |-> 0, rows |-> <<>>]

\* The values a field of a partial-update body takes over the values V: null
\* or one of V.  A body that names the fields S of the full body r.
Opt(V) == {Null} \cup {Some(v) : v \in V}
Solo(r, S) == [f \in S |-> r[f]]

Init ==
    /\ clientes = <<>>
    /\ productos = <<>>
    /\ ventas = <<>>
    /\ detalles = <<>>
    /\ now = 0
    /\ last = Resp("init", "ok", 0)
    /\ reporte = SinReporte
    /\ sesiones = [s \in 1..MaxSesiones |-> Ociosa]
    /\ cerrojo = 0
    /\ pendiente = [ventas |-> <<>>, detalles |-> <<>>]

(***************************************************************************)
(* Clientes                                                                *)
(***************************************************************************)
get_cliente(cliente_id) ==
    IF cliente_id \in DOMAIN clientes THEN Some(clientes[cliente_id]) ELSE Null

\* The uniqueness rule as it would be were rut not declared unique.
ClienteUnicoSoloEmail(id, email, rut) ==
    \A o \in DOMAIN clientes \ {id} : clientes[o].email # email

\* UNIQUE on clientes.email and clientes.rut: the row `id` would hold (email,
\* rut) beside the other rows of the table.
ClienteUnico(id, email, rut) ==
    \A o \in DOMAIN clientes \ {id} :
        clientes[o].email # email /\ clientes[o].rut # rut

create_cliente(data) ==
    /\ IF ClienteUnico(0, data.email, data.rut)
       THEN /\ clientes' = Put(clientes, NextId(clientes),
                               [nombre |-> data.nombre, email |-> data.email,
                                rut |-> data.rut, modified_at |-> now])
            /\ last' = Resp("create_cliente", "ok", 1)
       ELSE /\ clientes' = clientes
            /\ last' = Resp("create_cliente", "IntegrityError", 0)
    /\ reporte' = SinReporte
    /\ UNCHANGED <<productos, ventas, detalles, now, conc>>

update_cliente(cliente_id, data) ==
    /\ IF get_cliente(cliente_id) = Null
       THEN /\ clientes' = clientes
            /\ last' = Resp("update_cliente", "not_found", 0)
       ELSE LET c == clientes[cliente_id]
                obj == Setattr([nombre |-> Some(c.nombre), email |-> Some(c.email),
                                rut |-> Some(c.rut)], data)
            IN  IF \/ obj.nombre = Null \/ obj.email = Null \/ obj.rut = Null
                   \/ ~ClienteUnico(cliente_id, obj.email[1], obj.rut[1])
                THEN /\ clientes' = clientes
                     /\ last' = Resp("update_cliente", "IntegrityError", 0)
                ELSE IF obj.nombre[1] = c.nombre /\ obj.email[1] = c.email
                        /\ obj.rut[1] = c.rut
                THEN /\ clientes' = clientes
                     /\ last' = Resp("update_cliente", "ok", 0)
                ELSE /\ clientes' = Put(clientes, cliente_id,
                                        [nombre |-> obj.nombre[1], email |-> obj.email[1],
                                         rut |-> obj.rut[1], modified_at |-> now])
                     /\ last' = Resp("update_cliente", "ok", 1)
    /\ reporte' = SinReporte
    /\ UNCHANGED <<productos, ventas, detalles, now, conc>>

(***************************************************************************)
(* Productos                                                               *)
(***************************************************************************)
get_producto(producto_id) ==
    IF producto_id \in DOMAIN productos THEN Some(productos[producto_id]) ELSE Null

create_producto(data) ==
    /\ productos' = Put(productos, NextId(productos),
                        [nombre |-> data.nombre, categoria |-> data.categoria,
                         precio |-> data.precio, modified_at |-> now])
    /\ last' = Resp("create_producto", "ok", 1)
    /\ reporte' = SinReporte
    /\ UNCHANGED <<clientes, ventas, detalles, now, conc>>

update_producto(producto_id, data) ==
    /\ IF get_producto(producto_id) = Null
       THEN /\ productos' = productos
            /\ last' = Resp("update_producto", "not_found", 0)
       ELSE LET p == productos[producto_id]
                obj == Setattr([nombre |-> Some(p.nombre), categoria |-> p.categoria,
                                precio |-> Some(p.precio)], data)
            IN  IF obj.nombre = Null \/ obj.precio = Null
                THEN /\ productos' = productos
                     /\ last' = Resp("update_producto", "IntegrityError", 0)
                ELSE IF obj.nombre[1] = p.nombre /\ obj.categoria = p.categoria
                        /\ obj.precio[1] = p.precio
                THEN /\ productos' = productos
                     /\ last' = Resp("update_producto", "ok", 0)
                ELSE /\ productos' = Put(productos, producto_id,
                                         [nombre |-> obj.nombre[1],
                                          categoria |-> obj.categoria,
                                          precio |-> obj.precio[1], modified_at |-> now])
                     /\ last' = Resp("update_producto", "ok", 1)
    /\ reporte' = SinReporte
    /\ UNCHANGED <<clientes, ventas, detalles, now, conc>>

\* The rows of detalles_ventas that reference a producto / belong to a venta,
\* and the ventas a cliente owns.
DetallesDeProducto(producto_id) == {d \in DOMAIN detalles : detalles[d].producto_id = producto_id}
DetallesDeVenta(venta_id) == {d \in DOMAIN detalles : detalles[d].venta_id = venta_id}
VentasDeCliente(cliente_id) == {v \in DOMAIN ventas : ventas[v].cliente_id = cliente_id}

\* delete_producto as it would be were it to use the missing row.
delete_producto_sin_guarda(producto_id) ==
    /\ IF producto_id \notin DOMAIN productos \/ DetallesDeProducto(producto_id) # {}
       THEN /\ productos' = productos
            /\ last' = Resp("delete_producto", "IntegrityError", 0)
       ELSE /\ productos' = Del(productos, {producto_id})
            /\ last' = Resp("delete_producto", "ok", 1)
    /\ reporte' = SinReporte
    /\ UNCHANGED <<clientes, ventas, detalles, now, conc>>

\* delete_producto as it would be were nothing to restrict it: the row is
\* removed whether or not line items reference it.
delete_producto_sin_restriccion(producto_id) ==
    /\ IF producto_id \notin DOMAIN productos
       THEN /\ productos' = productos
            /\ last' = Resp("delete_producto", "not_found", 0)
       ELSE /\ productos' = Del(productos, {producto_id})
            /\ last' = Resp("delete_producto", "ok", 1)
    /\ reporte' = SinReporte
    /\ UNCHANGED <<clientes, ventas, detalles, now, conc>>

\* Producto.detalles carries no delete cascade: the unit of work sets
\* producto_id of every referencing row to NULL before the DELETE, and the
\* column is NOT NULL, so the flush fails when such a row exists.
delete_producto(producto_id) ==
    /\ IF get_producto(producto_id) = Null
       THEN /\ productos' = productos
            /\ last' = Resp("delete_producto", "not_found", 0)
       ELSE IF DetallesDeProducto(producto_id) # {}
       THEN /\ productos' = productos
            /\ last' = Resp("delete_producto", "IntegrityError", 0)
       ELSE /\ productos' = Del(productos, {producto_id})
            /\ last' = Resp("delete_producto", "ok", 1)
    /\ reporte' = SinReporte
    /\ UNCHANGED <<clientes, ventas, detalles, now, conc>>

(***************************************************************************)
(* Total of a venta                                                        *)
(***************************************************************************)
\* (precio - descuento) * cantidad as SQL evaluates it on a row: NULL as soon
\* as descuento or cantidad is NULL.
SubtotalSQL(d) ==
    IF d.descuento = Null \/ d.cantidad = Null
    THEN Null
    ELSE Some((d.precio - d.descuento[1]) * d.cantidad[1])

\* SUM over the options f[k], k in DOMAIN f: NULLs are skipped, and the sum of
\* no non-NULL value is NULL.
RECURSIVE SumSQL(_)
SumSQL(f) ==
    IF DOMAIN f = {} THEN Null
    ELSE LET k == CHOOSE x \in DOMAIN f : TRUE
             rest == SumSQL([x \in DOMAIN f \ {k} |-> f[x]])
         IN  IF f[k] = Null THEN rest
             ELSE IF rest = Null THEN f[k]
             ELSE Some(f[k][1] + rest[1])

Coalesce(x, dflt) == IF x = Null THEN dflt ELSE x[1]

\* _recalcular_total_venta on the flushed tables vs (ventas) and ds
\* (detalles_ventas): the ventas table after it.  The UPDATE is emitted, and
\* modified_at set, only when the total changes.
_recalcular_total_venta(vs, ds, venta_id) ==
    LET suma == Coalesce(SumSQL([d \in {x \in DOMAIN ds : ds[x].venta_id = venta_id} |->
                                   SubtotalSQL(ds[d])]), 0)
    IN  IF venta_id \in DOMAIN vs /\ vs[venta_id].total # suma
        THEN Put(vs, venta_id, [vs[venta_id] EXCEPT !.total = suma, !.modified_at = now])
        ELSE vs

\* Rows a transaction wrote in ventas, from the table before and after.
Escritas(antes, despues) ==
    Cardinality({k \in DOMAIN despues : k \notin DOMAIN antes \/ antes[k] # despues[k]})

\* response_model=DetalleVentaOut declares descuento and cantidad as int: a
\* row holding NULL in either fails the validation of the response.
DetalleSerializable(d) == d.descuento # Null /\ d.cantidad # Null

(***************************************************************************)
(* Ventas                                                                  *)
(***************************************************************************)
get_venta(venta_id) ==
    IF venta_id \in DOMAIN ventas THEN Some(ventas[venta_id]) ELSE Null

\* The total as it would be were the discount left out of the subtotal.
RECURSIVE TotalLoteSinDescuento(_)
TotalLoteSinDescuento(lote) ==
    IF lote = <<>> THEN 0
    ELSE Head(lote).precio * Head(lote).cantidad + TotalLoteSinDescuento(Tail(lote))

\* total of create_venta: Python integer arithmetic over the batch.
RECURSIVE TotalLote(_)
TotalLote(lote) ==
    IF lote = <<>> THEN 0
    ELSE (Head(lote).precio - Head(lote).descuento) * Head(lote).cantidad
         + TotalLote(Tail(lote))

\* create_venta as it would be were the flushed header to survive the failure
\* of a line item.
create_venta_sin_rollback(data) ==
    /\ IF data.cliente_id \notin DOMAIN clientes
       THEN /\ UNCHANGED <<ventas, detalles>>
            /\ last' = Resp("create_venta", "IntegrityError", 0)
       ELSE IF \E i \in DOMAIN data.detalles :
                  data.detalles[i].producto_id \notin DOMAIN productos
       THEN /\ ventas' = Put(ventas, NextId(ventas),
                             [cliente_id |-> data.cliente_id, total |-> 0,
                              modified_at |-> now])
            /\ detalles' = detalles
            /\ last' = Resp("create_venta", "IntegrityError", 0)
       ELSE /\ ventas' = Put(ventas, NextId(ventas),
                             [cliente_id |-> data.cliente_id,
                              total |-> TotalLote(data.detalles), modified_at |-> now])
            /\ detalles' =
                 [k \in DOMAIN detalles \cup
                        (NextId(detalles) .. NextId(detalles) + Len(data.detalles) - 1) |->
                    IF k \in DOMAIN detalles THEN detalles[k]
                    ELSE LET det == data.detalles[k - NextId(detalles) + 1]
                         IN  [producto_id |-> det.producto_id, venta_id |-> NextId(ventas),
                              precio |-> det.precio, descuento |-> Some(det.descuento),
                              cantidad |-> Some(det.cantidad), modified_at |-> now]]
            /\ last' = Resp("create_venta", "ok", 1 + Len(data.detalles))
    /\ reporte' = SinReporte
    /\ UNCHANGED <<clientes, productos, now, conc>>

create_venta(data) ==
    /\ IF \/ data.cliente_id \notin DOMAIN clientes
          \/ \E i \in DOMAIN data.detalles :
                data.detalles[i].producto_id \notin DOMAIN productos
       THEN /\ UNCHANGED <<ventas, detalles>>
            /\ last' = Resp("create_venta", "IntegrityError", 0)
       ELSE LET id == NextId(ventas)
                base == NextId(detalles) - 1
                n == Len(data.detalles)
            IN  /\ ventas' = Put(ventas, id,
                                 [cliente_id |-> data.cliente_id,
                                  total |-> TotalLote(data.detalles),
                                  modified_at |-> now])
                /\ detalles' =
                     [k \in DOMAIN detalles \cup (base + 1 .. base + n) |->
                        IF k \in DOMAIN detalles THEN detalles[k]
                        ELSE LET det == data.detalles[k - base]
                             IN  [producto_id |-> det.producto_id, venta_id |-> id,
                                  precio |-> det.precio,
                                  descuento |-> Some(det.descuento),
                                  cantidad |-> Some(det.cantidad),
                                  modified_at |-> now]]
                /\ last' = Resp("create_venta", "ok", 1 + n)
    /\ reporte' = SinReporte
    /\ UNCHANGED <<clientes, productos, now, conc>>

\* delete_venta as it would be were the delete to cascade from the line items
\* on to the products they reference.
delete_venta_borra_productos(venta_id) ==
    /\ IF venta_id \notin DOMAIN ventas
       THEN /\ UNCHANGED <<ventas, detalles, productos>>
            /\ last' = Resp("delete_venta", "not_found", 0)
       ELSE /\ detalles' = Del(detalles, DetallesDeVenta(venta_id))
            /\ ventas' = Del(ventas, {venta_id})
            /\ productos' = Del(productos, {detalles[d].producto_id :
                                               d \in DetallesDeVenta(venta_id)})
            /\ last' = Resp("delete_venta", "ok",
                            1 + Cardinality(DetallesDeVenta(venta_id)))
    /\ reporte' = SinReporte
    /\ UNCHANGED <<clientes, now, conc>>

\* Venta.detalles is cascade="all, delete-orphan": the rows of the venta are
\* deleted with it.
delete_venta(venta_id) ==
    /\ IF get_venta(venta_id) = Null
       THEN /\ UNCHANGED <<ventas, detalles>>
            /\ last' = Resp("delete_venta", "not_found", 0)
       ELSE /\ detalles' = Del(detalles, DetallesDeVenta(venta_id))
            /\ ventas' = Del(ventas, {venta_id})
            /\ last' = Resp("delete_venta", "ok",
                            1 + Cardinality(DetallesDeVenta(venta_id)))
    /\ reporte' = SinReporte
    /\ UNCHANGED <<clientes, productos, now, conc>>

\* update_venta as it would be were the foreign key of cliente_id not
\* enforced (PRAGMA foreign_keys left OFF).
update_venta_sin_clave_foranea(venta_id, data) ==
    /\ IF venta_id \notin DOMAIN ventas
       THEN /\ ventas' = ventas
            /\ last' = Resp("update_venta", "not_found", 0)
       ELSE LET v == ventas[venta_id]
                obj == Setattr([cliente_id |-> Some(v.cliente_id)], data)
            IN  IF obj.cliente_id = Null
                THEN /\ ventas' = ventas
                     /\ last' = Resp("update_venta", "IntegrityError", 0)
                ELSE /\ ventas' = Put(ventas, venta_id,
                                      [v EXCEPT !.cliente_id = obj.cliente_id[1]])
                     /\ last' = Resp("update_venta", "ok", 1)
    /\ reporte' = SinReporte
    /\ UNCHANGED <<clientes, productos, detalles, now, conc>>

\* response_model=VentaOut nests the detalles of the venta.
VentaSerializable(venta_id) ==
    \A d \in DetallesDeVenta(venta_id) : DetalleSerializable(detalles[d])

update_venta(venta_id, data) ==
    /\ IF get_venta(venta_id) = Null
       THEN /\ ventas' = ventas
            /\ last' = Resp("update_venta", "not_found", 0)
       ELSE LET v == ventas[venta_id]
                obj == Setattr([cliente_id |-> Some(v.cliente_id)], data)
                res == IF VentaSerializable(venta_id) THEN "ok"
                       ELSE "ResponseValidationError"
            IN  IF obj.cliente_id = Null \/ obj.cliente_id[1] \notin DOMAIN clientes
                THEN /\ ventas' = ventas
                     /\ last' = Resp("update_venta", "IntegrityError", 0)
                ELSE IF obj.cliente_id[1] = v.cliente_id
                THEN /\ ventas' = ventas
                     /\ last' = Resp("update_venta", res, 0)
                ELSE /\ ventas' = Put(ventas, venta_id,
                                      [v EXCEPT !.cliente_id = obj.cliente_id[1],
                                                !.modified_at = now])
                     /\ last' = Resp("update_venta", res, 1)
    /\ reporte' = SinReporte
    /\ UNCHANGED <<clientes, productos, detalles, now, conc>>

\* delete_cliente as it would be were Venta.detalles not to cascade.
delete_cliente_sin_detalles(cliente_id) ==
    /\ IF cliente_id \notin DOMAIN clientes
       THEN /\ UNCHANGED <<clientes, ventas>>
            /\ last' = Resp("delete_cliente", "not_found", 0)
       ELSE /\ ventas' = Del(ventas, VentasDeCliente(cliente_id))
            /\ clientes' = Del(clientes, {cliente_id})
            /\ last' = Resp("delete_cliente", "ok",
                            1 + Cardinality(VentasDeCliente(cliente_id)))
    /\ reporte' = SinReporte
    /\ UNCHANGED <<productos, detalles, now, conc>>

\* Cliente.ventas is cascade="all, delete-orphan", and so is Venta.detalles.
delete_cliente(cliente_id) ==
    /\ IF get_cliente(cliente_id) = Null
       THEN /\ UNCHANGED <<clientes, ventas, detalles>>
            /\ last' = Resp("delete_cliente", "not_found", 0)
       ELSE LET vs == VentasDeCliente(cliente_id)
                ds == {d \in DOMAIN detalles : detalles[d].venta_id \in vs}
            IN  /\ detalles' = Del(detalles, ds)
                /\ ventas' = Del(ventas, vs)
                /\ clientes' = Del(clientes, {cliente_id})
                /\ last' = Resp("delete_cliente", "ok",
                                1 + Cardinality(vs) + Cardinality(ds))
    /\ reporte' = SinReporte
    /\ UNCHANGED <<productos, now, conc>>

(***************************************************************************)
(* Detalles de venta                                                       *)
(***************************************************************************)
get_detalle(detalle_id) ==
    IF detalle_id \in DOMAIN detalles THEN Some(detalles[detalle_id]) ELSE Null

create_detalle(data) ==
    /\ IF data.venta_id \notin DOMAIN ventas \/ data.producto_id \notin DOMAIN productos
       THEN /\ UNCHANGED <<ventas, detalles>>
            /\ last' = Resp("create_detalle", "IntegrityError", 0)
       ELSE LET ds == Put(detalles, NextId(detalles),
                          [producto_id |-> data.producto_id, venta_id |-> data.venta_id,
                           precio |-> data.precio, descuento |-> Some(data.descuento),
                           cantidad |-> Some(data.cantidad), modified_at |-> now])
                vs == _recalcular_total_venta(ventas, ds, data.venta_id)
            IN  /\ detalles' = ds
                /\ ventas' = vs
                /\ last' = Resp("create_detalle", "ok", 1 + Escritas(ventas, vs))
    /\ reporte' = SinReporte
    /\ UNCHANGED <<clientes, productos, now, conc>>

update_detalle(detalle_id, data) ==
    /\ IF get_detalle(detalle_id) = Null
       THEN /\ UNCHANGED <<ventas, detalles>>
            /\ last' = Resp("update_detalle", "not_found", 0)
       ELSE LET det == detalles[detalle_id]
                obj == Setattr([precio |-> Some(det.precio), descuento |-> det.descuento,
                                cantidad |-> det.cantidad], data)
            IN  IF obj.precio = Null
                THEN /\ UNCHANGED <<ventas, detalles>>
                     /\ last' = Resp("update_detalle", "IntegrityError", 0)
                ELSE LET igual == /\ obj.precio[1] = det.precio
                                  /\ obj.descuento = det.descuento
                                  /\ obj.cantidad = det.cantidad
                         nuevo == IF igual THEN det
                                  ELSE [det EXCEPT !.precio = obj.precio[1],
                                                   !.descuento = obj.descuento,
                                                   !.cantidad = obj.cantidad,
                                                   !.modified_at = now]
                         ds == Put(detalles, detalle_id, nuevo)
                         vs == _recalcular_total_venta(ventas, ds, det.venta_id)
                     IN  /\ detalles' = ds
                         /\ ventas' = vs
                         /\ last' = Resp("update_detalle",
                                         IF DetalleSerializable(nuevo) THEN "ok"
                                         ELSE "ResponseValidationError",
                                         (IF igual THEN 0 ELSE 1) + Escritas(ventas, vs))
    /\ reporte' = SinReporte
    /\ UNCHANGED <<clientes, productos, now, conc>>

delete_detalle(detalle_id) ==
    /\ IF get_detalle(detalle_id) = Null
       THEN /\ UNCHANGED <<ventas, detalles>>
            /\ last' = Resp("delete_detalle", "not_found", 0)
       ELSE LET venta_id == detalles[detalle_id].venta_id
                ds == Del(detalles, {detalle_id})
                vs == _recalcular_total_venta(ventas, ds, venta_id)
            IN  /\ detalles' = ds
                /\ ventas' = vs
                /\ last' = Resp("delete_detalle", "ok", 1 + Escritas(ventas, vs))
    /\ reporte' = SinReporte
    /\ UNCHANGED <<clientes, productos, now, conc>>

(***************************************************************************)
(* Reportes                                                                *)
(***************************************************************************)
\* ORDER BY key DESC over options: SQLite sorts NULL below every integer.
MayorIgual(a, b) == b = Null \/ (a # Null /\ a[1] >= b[1])

\* The orders in which the engine may return the groups G (one row fila(g)
\* per group) under ORDER BY clave DESC: ties are returned in any order.
\* fila and clave are functions on G.
Ordenes(G, fila, clave) ==
    { [i \in 1..Cardinality(G) |-> fila[s[i]]] :
        s \in { t \in [1..Cardinality(G) -> G] :
                  /\ \A i, j \in 1..Cardinality(G) : i # j => t[i] # t[j]
                  /\ \A i, j \in 1..Cardinality(G) :
                        i < j => MayorIgual(clave[t[i]], clave[t[j]]) } }

\* LIMIT as it would be were a negative n to return no row.
LimitNegativoVacio(s, n) ==
    IF n < 0 THEN <<>> ELSE IF n >= Len(s) THEN s ELSE SubSeq(s, 1, n)

\* LIMIT n of SQLite: the first n rows, and every row when n is negative.
Limit(s, n) == IF n < 0 \/ n >= Len(s) THEN s ELSE SubSeq(s, 1, n)

\* One group of productos_mas_vendidos: the inner join keeps the rows of
\* detalles_ventas whose producto exists, grouped by producto.
TotalCantidad(p) == SumSQL([d \in DetallesDeProducto(p) |-> detalles[d].cantidad])
TotalIngresos(p) == SumSQL([d \in DetallesDeProducto(p) |-> SubtotalSQL(detalles[d])])
FilaProducto(p) ==
    [producto_id |-> p, nombre |-> productos[p].nombre,
     total_cantidad |-> TotalCantidad(p), total_ingresos |-> TotalIngresos(p)]

productos_mas_vendidos(limit) ==
    /\ \E s \in Ordenes({p \in DOMAIN productos : DetallesDeProducto(p) # {}},
                        [p \in DOMAIN productos |-> FilaProducto(p)],
                        [p \in DOMAIN productos |-> TotalCantidad(p)]) :
          reporte' = [limit |-> limit, rows |-> Limit(s, limit)]
    /\ last' = Resp("productos_mas_vendidos", "ok", 0)
    /\ UNCHANGED <<clientes, productos, ventas, detalles, now, conc>>

\* One group of clientes_con_mas_ventas: ventas joined to their cliente.
TotalVentas(c) == Some(Cardinality(VentasDeCliente(c)))
TotalMonto(c) == SumSQL([v \in VentasDeCliente(c) |-> Some(ventas[v].total)])
FilaCliente(c) ==
    [cliente_id |-> c, nombre |-> clientes[c].nombre,
     total_ventas |-> TotalVentas(c), total_monto |-> TotalMonto(c)]

clientes_con_mas_ventas(limit) ==
    /\ \E s \in Ordenes({c \in DOMAIN clientes : VentasDeCliente(c) # {}},
                        [c \in DOMAIN clientes |-> FilaCliente(c)],
                        [c \in DOMAIN clientes |-> TotalVentas(c)]) :
          reporte' = [limit |-> limit, rows |-> Limit(s, limit)]
    /\ last' = Resp("clientes_con_mas_ventas", "ok", 0)
    /\ UNCHANGED <<clientes, productos, ventas, detalles, now, conc>>

(***************************************************************************)
(* The clock.                                                              *)
(***************************************************************************)
Tick ==
    /\ now < MaxNow
    /\ now' = now + 1
    /\ UNCHANGED <<clientes, productos, ventas, detalles, last, reporte, conc>>

(***************************************************************************)
(* Requests.  Every request body and path parameter is drawn from small    *)
(* sets; an id ranges over the keys a table can hold and one beyond.  A    *)
(* create is capped by the largest key the specification lets a table hold.*)
(***************************************************************************)
Bodies(R, F) == { Solo(r, S) : r \in R, S \in SUBSET F }

ClienteUpdate(N, E, R) ==
    Bodies([nombre : Opt(N), email : Opt(E), rut : Opt(R)], {"nombre", "email", "rut"})
ProductoUpdate(N, C, P) ==
    Bodies([nombre : Opt(N), categoria : Opt(C), precio : Opt(P)],
           {"nombre", "categoria", "precio"})
VentaUpdate(C) == Bodies([cliente_id : Opt(C)], {"cliente_id"})
DetalleUpdate(P, D, C) ==
    Bodies([precio : Opt(P), descuento : Opt(D), cantidad : Opt(C)],
           {"precio", "descuento", "cantidad"})

\* A line of a batch or of a standalone create; batches of at most MaxLote.
Lineas(Prods, P, D, C) == [producto_id : Prods, precio : P, descuento : D, cantidad : C]
Lotes(L) == UNION { [1..n -> L] : n \in 0..MaxLote }

OpsClientes(cap, CC, CU) ==
    \/ \E data \in CC : NextId(clientes) <= cap /\ create_cliente(data)
    \/ \E id \in 1..cap + 1, data \in CU : update_cliente(id, data)
    \/ \E id \in 1..cap + 1 : delete_cliente(id)

OpsProductos(cap, PC, PU) ==
    \/ \E data \in PC : NextId(productos) <= cap /\ create_producto(data)
    \/ \E id \in 1..cap + 1, data \in PU : update_producto(id, data)
    \/ \E id \in 1..cap + 1 : delete_producto(id)

OpsVentas(cap, capDet, C, L, VU) ==
    \/ \E c \in C, lote \in Lotes(L) :
          /\ NextId(ventas) <= cap
          /\ NextId(detalles) + Len(lote) - 1 <= capDet
          /\ create_venta([cliente_id |-> c, detalles |-> lote])
    \/ \E id \in 1..cap + 1, data \in VU : update_venta(id, data)
    \/ \E id \in 1..cap + 1 : delete_venta(id)

OpsDetalles(cap, V, L, DU) ==
    \/ \E v \in V, l \in L :
          /\ NextId(detalles) <= cap
          /\ create_detalle([producto_id |-> l.producto_id, venta_id |-> v,
                             precio |-> l.precio, descuento |-> l.descuento,
                             cantidad |-> l.cantidad])
    \/ \E id \in 1..cap + 1, data \in DU : update_detalle(id, data)
    \/ \E id \in 1..cap + 1 : delete_detalle(id)

DosClientes ==
    { [nombre |-> "Ana", email |-> "a@x.cl", rut |-> "1-9"],
      [nombre |-> "Eva", email |-> "b@x.cl", rut |-> "2-7"] }
UnProducto == { [nombre |-> "pan", categoria |-> Null, precio |-> 10] }

(***************************************************************************)
(* Spec: the four tables together, every create and delete, the header     *)
(* update of a sale; line items of one price, discount and quantity.       *)
(***************************************************************************)
IdsClientes == 1..MaxClientes + 1
IdsProductos == 1..MaxProductos + 1
IdsVentas == 1..MaxVentas + 1
IdsDetalles == 1..MaxDetalles + 1
LineasSpec == Lineas(IdsProductos, {100}, {10}, {2})

Next ==
    \/ OpsClientes(MaxClientes, DosClientes, Bodies([nombre : {Null}], {"nombre"}))
    \/ OpsProductos(MaxProductos, UnProducto, Bodies([nombre : {Null}], {"nombre"}))
    \/ OpsVentas(MaxVentas, MaxDetalles, IdsClientes, LineasSpec, VentaUpdate(IdsClientes))
    \/ OpsDetalles(MaxDetalles, IdsVentas, LineasSpec,
                   Bodies([cantidad : {Some(2)}], {"cantidad"}))

Spec == Init /\ [][Next]_vars

\* The status main.py answers with: 404 for a crud function returning None or
\* False, 500 for an exception that leaves the handler.
Status(r) ==
    CASE r.res = "not_found" -> 404
      [] r.res = "ok" -> IF r.op \in {"create_cliente", "create_producto", "create_venta",
                                      "create_detalle"} THEN 201
                         ELSE IF r.op \in {"delete_cliente", "delete_producto",
                                           "delete_venta", "delete_detalle"} THEN 204
                         ELSE 200
      [] OTHER -> 500

\* The rows of table t other than those keyed in S are the same in t2, and t2
\* holds no other row.
SoloBorra(t, t2, S) ==
    /\ DOMAIN t2 = DOMAIN t \ S
    /\ \A k \in DOMAIN t2 : t2[k] = t[k]

(***************************************************************************)
(* C3: a delete_cliente of an existing customer succeeds; afterwards no    *)
(* sale of that customer and no line item of such a sale exists, and every *)
(* other customer, sale and line item and every product is as before.      *)
(***************************************************************************)
C3_DeleteClienteCascada ==
    [][last'.op = "delete_cliente" => \A id \in IdsClientes :
         (id \in DOMAIN clientes /\ delete_cliente(id)) =>
            LET suyas == {v \in DOMAIN ventas : ventas[v].cliente_id = id}
            IN  /\ last'.res = "ok"
                /\ \A v \in DOMAIN ventas' : ventas'[v].cliente_id # id
                /\ \A d \in DOMAIN detalles' : detalles'[d].venta_id \notin suyas
                /\ SoloBorra(clientes, clientes', {id})
                /\ SoloBorra(ventas, ventas', suyas)
                /\ SoloBorra(detalles, detalles',
                             {d \in DOMAIN detalles : detalles[d].venta_id \in suyas})
                /\ productos' = productos]_vars

\* A customer with a sale and a line item was deleted, and another customer's
\* sale and line item are still there.
C3_Witness ==
    /\ last.op = "delete_cliente" /\ last.res = "ok" /\ last.n >= 3
    /\ DOMAIN clientes # {} /\ DOMAIN ventas # {} /\ DOMAIN detalles # {}

(***************************************************************************)
(* C4: a delete_venta of an existing sale succeeds; afterwards none of its *)
(* line items exists, and every product, every customer and every other    *)
(* sale and line item is as before.                                        *)
(***************************************************************************)
C4_DeleteVentaMarco ==
    [][last'.op = "delete_venta" => \A id \in IdsVentas :
         (id \in DOMAIN ventas /\ delete_venta(id)) =>
            /\ last'.res = "ok"
            /\ \A d \in DOMAIN detalles' : detalles'[d].venta_id # id
            /\ SoloBorra(detalles, detalles',
                         {d \in DOMAIN detalles : detalles[d].venta_id = id})
            /\ SoloBorra(ventas, ventas', {id})
            /\ productos' = productos
            /\ clientes' = clientes]_vars

\* A sale with a line item was deleted; another sale with a line item remains.
C4_Witness ==
    /\ last.op = "delete_venta" /\ last.res = "ok" /\ last.n >= 2
    /\ DOMAIN ventas # {} /\ DOMAIN detalles # {} /\ DOMAIN productos # {}

(***************************************************************************)
(* C6: each of the four deletes, called with an id its table does not      *)
(* hold, answers not found (404, no exception) and leaves every table,     *)
(* and so every total, as it was.                                          *)
(***************************************************************************)
C6_DeleteInexistente ==
    [][/\ last'.op = "delete_cliente" => \A id \in IdsClientes :
            (id \notin DOMAIN clientes /\ delete_cliente(id))
               => (last'.res = "not_found" /\ Status(last') = 404 /\ UNCHANGED db)
       /\ last'.op = "delete_producto" => \A id \in IdsProductos :
            (id \notin DOMAIN productos /\ delete_producto(id))
               => (last'.res = "not_found" /\ Status(last') = 404 /\ UNCHANGED db)
       /\ last'.op = "delete_venta" => \A id \in IdsVentas :
            (id \notin DOMAIN ventas /\ delete_venta(id))
               => (last'.res = "not_found" /\ Status(last') = 404 /\ UNCHANGED db)
       /\ last'.op = "delete_detalle" => \A id \in IdsDetalles :
            (id \notin DOMAIN detalles /\ delete_detalle(id))
               => (last'.res = "not_found" /\ Status(last') = 404 /\ UNCHANGED db)]_vars

\* A delete answered not found on a store that holds sales and line items.
C6_Witness ==
    /\ last.op \in {"delete_cliente", "delete_producto", "delete_venta", "delete_detalle"}
    /\ last.res = "not_found"
    /\ DOMAIN ventas # {} /\ DOMAIN detalles # {}

(***************************************************************************)
(* C7: create_venta naming a customer that does not exist, or a product    *)
(* that does not exist in any line of its batch, and create_detalle naming *)
(* a sale or a product that does not exist, fail with IntegrityError and   *)
(* leave every table as it was.                                            *)
(***************************************************************************)
C7_ClaveForanea ==
    [][/\ last'.op = "create_venta" => \A c \in IdsClientes, lote \in Lotes(LineasSpec) :
            (/\ \/ c \notin DOMAIN clientes
                \/ \E i \in DOMAIN lote : lote[i].producto_id \notin DOMAIN productos
             /\ create_venta([cliente_id |-> c, detalles |-> lote]))
               => (last'.res = "IntegrityError" /\ UNCHANGED db)
       /\ last'.op = "create_detalle" => \A v \in IdsVentas, l \in LineasSpec :
            (/\ (v \notin DOMAIN ventas \/ l.producto_id \notin DOMAIN productos)
             /\ create_detalle([producto_id |-> l.producto_id, venta_id |-> v,
                                precio |-> l.precio, descuento |-> l.descuento,
                                cantidad |-> l.cantidad]))
               => (last'.res = "IntegrityError" /\ UNCHANGED db)]_vars

\* A create failed on a foreign key while customers, products and sales exist.
C7_Witness ==
    /\ last.op \in {"create_venta", "create_detalle"} /\ last.res = "IntegrityError"
    /\ DOMAIN clientes # {} /\ DOMAIN productos # {} /\ DOMAIN ventas # {}

(***************************************************************************)
(* C12 as claimed: delete_producto on a product that exists answers ok and *)
(* removes that product and nothing else, whether or not line items        *)
(* reference it.                                                           *)
(***************************************************************************)
C12_Original ==
    [][last'.op = "delete_producto" => \A id \in IdsProductos :
         (id \in DOMAIN productos /\ delete_producto(id))
            => /\ last'.res = "ok"
               /\ productos' = Del(productos, {id})
               /\ UNCHANGED <<clientes, ventas, detalles>>]_vars

(***************************************************************************)
(* C12 amended: delete_producto on a product that exists and that no line  *)
(* item references answers ok and removes that product and nothing else;   *)
(* on a product that a line item references it fails with IntegrityError   *)
(* (status 500) and leaves every table as it was.                          *)
(***************************************************************************)
C12_DeleteProducto ==
    [][last'.op = "delete_producto" => \A id \in IdsProductos :
         (id \in DOMAIN productos /\ delete_producto(id))
            => IF \E d \in DOMAIN detalles : detalles[d].producto_id = id
               THEN last'.res = "IntegrityError" /\ Status(last') = 500 /\ UNCHANGED db
               ELSE /\ last'.res = "ok" /\ Status(last') = 204
                    /\ productos' = Del(productos, {id})
                    /\ UNCHANGED <<clientes, ventas, detalles>>]_vars

\* The delete of a product was refused while a line item references one.
C12_Witness ==
    /\ last.op = "delete_producto" /\ last.res = "IntegrityError"
    /\ \E d \in DOMAIN detalles : detalles[d].producto_id \in DOMAIN productos

(***************************************************************************)
(* C13: in every reachable state every sale owns at least one line item.   *)
(***************************************************************************)
C13_VentaConDetalles ==
    \A v \in DOMAIN ventas : \E d \in DOMAIN detalles : detalles[d].venta_id = v

(***************************************************************************)
(* C15: in every reachable state every line item references a sale and a   *)
(* product that exist and every sale references a customer that exists;    *)
(* update_detalle leaves venta_id and producto_id of the line item as they *)
(* were.                                                                   *)
(***************************************************************************)
C15_IntegridadReferencial ==
    /\ [](/\ \A d \in DOMAIN detalles : /\ detalles[d].venta_id \in DOMAIN ventas
                                         /\ detalles[d].producto_id \in DOMAIN productos
          /\ \A v \in DOMAIN ventas : ventas[v].cliente_id \in DOMAIN clientes)
    /\ [][last'.op = "update_detalle" => \A d \in DOMAIN detalles :
            /\ d \in DOMAIN detalles'
            /\ detalles'[d].venta_id = detalles[d].venta_id
            /\ detalles'[d].producto_id = detalles[d].producto_id]_vars

\* An update of a sale's customer was refused, on a store that holds two
\* customers, a sale and a line item.
C15_Witness ==
    /\ last.op = "update_venta" /\ last.res = "IntegrityError"
    /\ Cardinality(DOMAIN clientes) = 2
    /\ DOMAIN ventas # {} /\ DOMAIN detalles # {}

(***************************************************************************)
(* SpecClientes: the customer requests alone, over every name, email and   *)
(* tax id.                                                                 *)
(***************************************************************************)
Nombres == {"Ana", "Eva"}
Emails == {"a@x.cl", "b@x.cl"}
Ruts == {"1-9", "2-7"}
ClienteCreate == [nombre : Nombres, email : Emails, rut : Ruts]

NextClientes == OpsClientes(MaxClientes, ClienteCreate, ClienteUpdate(Nombres, Emails, Ruts))

SpecClientes == Init /\ [][NextClientes]_vars

(***************************************************************************)
(* C8: no two customers share an email and no two share a rut; a           *)
(* create_cliente or update_cliente whose result would share one fails     *)
(* with IntegrityError and leaves the customers as they were.              *)
(***************************************************************************)
Repetido(id, email, rut) ==
    \E o \in DOMAIN clientes \ {id} : clientes[o].email = email \/ clientes[o].rut = rut

C8_Unicidad ==
    /\ [](\A a, b \in DOMAIN clientes :
            a # b => clientes[a].email # clientes[b].email /\ clientes[a].rut # clientes[b].rut)
    /\ [][/\ last'.op = "create_cliente" => \A data \in ClienteCreate :
               (/\ Repetido(0, data.email, data.rut)
                /\ create_cliente(data))
                  => (last'.res = "IntegrityError" /\ clientes' = clientes)
          /\ last'.op = "update_cliente" =>
             \A id \in DOMAIN clientes, data \in ClienteUpdate(Nombres, Emails, Ruts) :
               (/\ Repetido(id,
                            IF "email" \in DOMAIN data /\ data["email"] # Null
                            THEN data["email"][1] ELSE clientes[id].email,
                            IF "rut" \in DOMAIN data /\ data["rut"] # Null
                            THEN data["rut"][1] ELSE clientes[id].rut)
                /\ update_cliente(id, data))
                  => (last'.res = "IntegrityError" /\ clientes' = clientes)]_vars

\* A create was refused while a customer with the same email or rut is stored.
C8_Witness ==
    /\ last.op = "create_cliente" /\ last.res = "IntegrityError"
    /\ DOMAIN clientes # {}

(***************************************************************************)
(* SpecVentas: sales and line items over two discounts and two quantities, *)
(* with the null a partial update may carry; one customer, one product.    *)
(***************************************************************************)
UnCliente == { [nombre |-> "Ana", email |-> "a@x.cl", rut |-> "1-9"] }
LineasVentas == Lineas(1..Pocos + 1, {100}, {0, 10}, {1, 2})
DetalleUpdateVentas == DetalleUpdate({100}, {0, 10}, {1, 2})

NextVentas ==
    \/ OpsClientes(Pocos, UnCliente, Bodies([nombre : {Null}], {"nombre"}))
    \/ OpsProductos(Pocos, UnProducto, Bodies([nombre : {Null}], {"nombre"}))
    \/ OpsVentas(MaxVentas, MaxDetalles, 1..Pocos + 1, LineasVentas, VentaUpdate(1..Pocos + 1))
    \/ OpsDetalles(MaxDetalles, IdsVentas, LineasVentas, DetalleUpdateVentas)

SpecVentas == Init /\ [][NextVentas]_vars

\* Sum of f over the finite set S of integers.
RECURSIVE Suma(_, _)
Suma(S, f) ==
    IF S = {} THEN 0
    ELSE LET k == Max(S) IN f[k] + Suma(S \ {k}, f)

(***************************************************************************)
(* C1: in every reachable state, the line items of every sale hold integer *)
(* price, discount and quantity, and the stored total of the sale equals   *)
(* the sum of (precio - descuento) * cantidad over them (0 when it has     *)
(* none).                                                                  *)
(***************************************************************************)
C1_TotalEsSuma ==
    \A v \in DOMAIN ventas :
        LET suyos == {d \in DOMAIN detalles : detalles[d].venta_id = v}
        IN  /\ \A d \in suyos : detalles[d].descuento # Null /\ detalles[d].cantidad # Null
            /\ ventas[v].total =
                 Suma(suyos, [d \in suyos |->
                                (detalles[d].precio - detalles[d].descuento[1])
                                  * detalles[d].cantidad[1]])

(***************************************************************************)
(* C2: a create_venta that succeeds stores one new sale whose total is the *)
(* sum of (precio - descuento) * cantidad over the batch supplied, and one *)
(* new line item per entry of the batch, attached to that sale and holding *)
(* the entry's values; the empty batch gives total 0 and no line item.     *)
(***************************************************************************)
C2_CreateVenta ==
    [][(last'.op = "create_venta" /\ last'.res = "ok") =>
       \A c \in 1..Pocos + 1, lote \in Lotes(LineasVentas) :
         create_venta([cliente_id |-> c, detalles |-> lote])
            => LET id == CHOOSE v \in DOMAIN ventas' : v \notin DOMAIN ventas
                   nuevos == DOMAIN detalles' \ DOMAIN detalles
               IN  /\ DOMAIN ventas' = DOMAIN ventas \cup {id} /\ id \notin DOMAIN ventas
                   /\ ventas'[id].cliente_id = c
                   /\ ventas'[id].total =
                        Suma(1..Len(lote),
                             [i \in 1..Len(lote) |->
                                (lote[i].precio - lote[i].descuento) * lote[i].cantidad])
                   /\ Cardinality(nuevos) = Len(lote)
                   /\ \A d \in nuevos : detalles'[d].venta_id = id
                   /\ \E f \in [1..Len(lote) -> nuevos] :
                        /\ \A i, j \in 1..Len(lote) : i # j => f[i] # f[j]
                        /\ \A i \in 1..Len(lote) :
                             /\ detalles'[f[i]].producto_id = lote[i].producto_id
                             /\ detalles'[f[i]].precio = lote[i].precio
                             /\ detalles'[f[i]].descuento = Some(lote[i].descuento)
                             /\ detalles'[f[i]].cantidad = Some(lote[i].cantidad)
                   /\ \A v \in DOMAIN ventas : ventas'[v] = ventas[v]
                   /\ \A d \in DOMAIN detalles : detalles'[d] = detalles[d]]_vars

\* The sale just created holds the one line item {100, 10, 2} and total 180.
C2_Witness ==
    /\ last.op = "create_venta" /\ last.res = "ok" /\ last.n = 2
    /\ \E v \in DOMAIN ventas :
         /\ ventas[v].total = 180
         /\ \E d \in DOMAIN detalles :
              /\ {x \in DOMAIN detalles : detalles[x].venta_id = v} = {d}
              /\ detalles[d].precio = 100 /\ detalles[d].descuento = Some(10)
              /\ detalles[d].cantidad = Some(2)

(***************************************************************************)
(* SpecRepProductos: the top-products report over up to Muchos line items  *)
(* of two products, their quantity 1, 2 or nulled by a partial update.     *)
(***************************************************************************)
Limites == {-1, 0, 1, 2, 10}
LineasRep == Lineas(IdsProductos, {100}, {10}, {1, 2})

NextRepProductos ==
    \/ OpsClientes(Pocos, UnCliente, Bodies([nombre : {Null}], {"nombre"}))
    \/ OpsProductos(MaxProductos, UnProducto, Bodies([nombre : {Null}], {"nombre"}))
    \/ OpsVentas(Pocos, Muchos, 1..Pocos, LineasRep, VentaUpdate(1..Pocos))
    \/ OpsDetalles(Muchos, 1..Pocos, LineasRep,
                   Bodies([cantidad : Opt({1, 2})], {"cantidad"}))
    \/ \E limit \in Limites : productos_mas_vendidos(limit)

SpecRepProductos == Init /\ [][NextRepProductos]_vars

(***************************************************************************)
(* C9, for a limit that is not negative: productos_mas_vendidos(limit)     *)
(* changes no table and returns at most limit rows, one per product that   *)
(* has line items (all of them when limit allows), each with               *)
(* total_cantidad the sum of cantidad and total_ingresos the sum of        *)
(* (precio - descuento) * cantidad over the integer-valued line items of   *)
(* the product, in non-increasing order of total_cantidad.                 *)
(***************************************************************************)
C9_MasVendidos ==
    [][last'.op = "productos_mas_vendidos" => \A limit \in {l \in Limites : l >= 0} :
         productos_mas_vendidos(limit) =>
            LET r == reporte'.rows
                conLineas == {p \in DOMAIN productos :
                                \E d \in DOMAIN detalles : detalles[d].producto_id = p}
            IN  /\ UNCHANGED db
                /\ Len(r) <= limit
                /\ Len(r) = IF limit < Cardinality(conLineas) THEN limit
                            ELSE Cardinality(conLineas)
                /\ \A i \in 1..Len(r) : r[i].producto_id \in conLineas
                /\ \A i, j \in 1..Len(r) : i # j => r[i].producto_id # r[j].producto_id
                /\ \A i \in 1..Len(r) :
                     LET suyos == {d \in DOMAIN detalles :
                                     detalles[d].producto_id = r[i].producto_id}
                     IN  /\ \A d \in suyos : /\ detalles[d].descuento # Null
                                             /\ detalles[d].cantidad # Null
                         /\ r[i].nombre = productos[r[i].producto_id].nombre
                         /\ r[i].total_cantidad =
                              Some(Suma(suyos, [d \in suyos |-> detalles[d].cantidad[1]]))
                         /\ r[i].total_ingresos =
                              Some(Suma(suyos, [d \in suyos |->
                                     (detalles[d].precio - detalles[d].descuento[1])
                                       * detalles[d].cantidad[1]]))
                /\ \A i, j \in 1..Len(r) :
                     i < j => r[i].total_cantidad[1] >= r[j].total_cantidad[1]]_vars

(***************************************************************************)
(* SpecRepClientes: the top-customers report over up to Muchos sales of    *)
(* two customers.                                                          *)
(***************************************************************************)
NextRepClientes ==
    \/ OpsClientes(MaxClientes, DosClientes, Bodies([nombre : {Null}], {"nombre"}))
    \/ OpsProductos(Pocos, UnProducto, Bodies([nombre : {Null}], {"nombre"}))
    \/ OpsVentas(Muchos, MaxDetalles, 1..MaxClientes, Lineas(1..Pocos, {100}, {10}, {2}),
                 VentaUpdate(1..MaxClientes))
    \/ OpsDetalles(MaxDetalles, 1..Muchos, Lineas(1..Pocos, {100}, {10}, {2}),
                   Bodies([cantidad : {Some(2)}], {"cantidad"}))
    \/ \E limit \in Limites : clientes_con_mas_ventas(limit)

SpecRepClientes == Init /\ [][NextRepClientes]_vars

\* What C10 says of the rows r returned for the cap n (the number of rows
\* the claim allows): the tables are as before, and r holds at most n rows,
\* one per customer that has sales, with the count and the sum of the stored
\* totals of the customer's sales, in non-increasing order of the count.
FilasClientes(r, n) ==
    LET conVentas == {c \in DOMAIN clientes :
                        \E v \in DOMAIN ventas : ventas[v].cliente_id = c}
    IN  /\ Len(r) <= n
        /\ \A i \in 1..Len(r) : r[i].cliente_id \in conVentas
        /\ \A i, j \in 1..Len(r) : i # j => r[i].cliente_id # r[j].cliente_id
        /\ \A i \in 1..Len(r) :
             LET suyas == {v \in DOMAIN ventas : ventas[v].cliente_id = r[i].cliente_id}
             IN  /\ r[i].nombre = clientes[r[i].cliente_id].nombre
                 /\ r[i].total_ventas = Some(Cardinality(suyas))
                 /\ r[i].total_monto = Some(Suma(suyas, [v \in suyas |-> ventas[v].total]))
        /\ \A i, j \in 1..Len(r) : i < j => r[i].total_ventas[1] >= r[j].total_ventas[1]

NumConVentas == Cardinality({ventas[v].cliente_id : v \in DOMAIN ventas})

(***************************************************************************)
(* C10 as claimed, for any limit (a negative limit read as a cap of 0):    *)
(* clientes_con_mas_ventas(limit) changes no table and returns at most     *)
(* limit rows, one per customer that has sales, with total_ventas the      *)
(* number and total_monto the sum of the stored totals of the customer's   *)
(* sales, in non-increasing order of total_ventas.                         *)
(***************************************************************************)
C10_Original ==
    [][last'.op = "clientes_con_mas_ventas" => \A limit \in Limites :
         clientes_con_mas_ventas(limit) =>
            /\ UNCHANGED db
            /\ FilasClientes(reporte'.rows, IF limit < 0 THEN 0 ELSE limit)]_vars

(***************************************************************************)
(* C10 amended: as claimed for a limit >= 0, where the report returns      *)
(* min(limit, k) rows, k the number of customers that have sales; a        *)
(* negative limit is no cap, and the report returns all k rows.            *)
(***************************************************************************)
C10_MasVentas ==
    [][last'.op = "clientes_con_mas_ventas" => \A limit \in Limites :
         clientes_con_mas_ventas(limit) =>
            /\ UNCHANGED db
            /\ FilasClientes(reporte'.rows, IF limit < 0 THEN NumConVentas ELSE limit)
            /\ Len(reporte'.rows) = IF limit < 0 \/ limit > NumConVentas
                                    THEN NumConVentas ELSE limit]_vars

\* The report ranked a customer with two sales before a customer with one,
\* the first with a total_monto that adds two stored totals.
C10_Witness ==
    /\ last.op = "clientes_con_mas_ventas"
    /\ Len(reporte.rows) = 2
    /\ reporte.rows[1].total_ventas = Some(2) /\ reporte.rows[2].total_ventas = Some(1)
    /\ reporte.rows[1].total_monto = Some(360)

(***************************************************************************)
(* SpecUpdate: one row per table, every body of the four partial updates,  *)
(* and a clock that advances between requests.                             *)
(***************************************************************************)
ClienteUpdateAll ==
    Bodies([nombre : Opt({"Eva"}), email : {Some("b@x.cl")}, rut : {Some("1-9")}],
           {"nombre", "email", "rut"})
ProductoUpdateAll ==
    Bodies([nombre : {Some("te")}, categoria : Opt({"bebida"}), precio : {Some(10)}],
           {"nombre", "categoria", "precio"})
VentaUpdateAll == VentaUpdate(1..Pocos + 1)
DetalleUpdateAll ==
    Bodies([precio : {Some(100)}, descuento : Opt({0}), cantidad : {Some(1)}],
           {"precio", "descuento", "cantidad"})
LineasUpdate == Lineas(1..Pocos, {100}, {10}, {2})

NextUpdate ==
    \/ \E data \in UnCliente : NextId(clientes) <= Pocos /\ create_cliente(data)
    \/ \E data \in UnProducto : NextId(productos) <= Pocos /\ create_producto(data)
    \/ \E lote \in Lotes(LineasUpdate) :
          /\ NextId(ventas) <= Pocos
          /\ NextId(detalles) + Len(lote) - 1 <= Pocos
          /\ create_venta([cliente_id |-> 1, detalles |-> lote])
    \/ \E id \in 1..Pocos + 1, data \in ClienteUpdateAll : update_cliente(id, data)
    \/ \E id \in 1..Pocos + 1, data \in ProductoUpdateAll : update_producto(id, data)
    \/ \E id \in 1..Pocos + 1, data \in VentaUpdateAll : update_venta(id, data)
    \/ \E id \in 1..Pocos + 1, data \in DetalleUpdateAll : update_detalle(id, data)
    \/ Tick

SpecUpdate == Init /\ [][NextUpdate]_vars

\* The column f of a row as an option, whether the table stores it bare or
\* as an option.
Col(row, f, bare) == IF f \in bare THEN Some(row[f]) ELSE row[f]

\* What C5 says of the row before and after an update with the body data:
\* of the columns F, those the body names hold its values, the others are
\* as before.
Parcial(antes, despues, data, F, bare) ==
    \A f \in F :
        IF f \in DOMAIN data
        THEN Col(despues, f, bare) = data[f]
        ELSE Col(despues, f, bare) = Col(antes, f, bare)

CamposCliente == {"nombre", "email", "rut", "modified_at"}
CamposProducto == {"nombre", "categoria", "precio", "modified_at"}
CamposVenta == {"cliente_id", "total", "modified_at"}
CamposDetalle == {"producto_id", "venta_id", "precio", "descuento", "cantidad", "modified_at"}

(***************************************************************************)
(* C5 as claimed: an update of an existing row leaves every field the body *)
(* does not name as it was and gives every field it names the value        *)
(* supplied; an update of an id that does not exist answers not found and  *)
(* changes nothing.                                                        *)
(***************************************************************************)
C5_Original ==
    [][/\ last'.op = "update_cliente" => \A id \in 1..Pocos + 1, data \in ClienteUpdateAll :
            update_cliente(id, data) =>
               IF id \in DOMAIN clientes
               THEN Parcial(clientes[id], clientes'[id], data, CamposCliente, CamposCliente)
               ELSE last'.res = "not_found" /\ UNCHANGED db
       /\ last'.op = "update_producto" =>
            \A id \in 1..Pocos + 1, data \in ProductoUpdateAll :
            update_producto(id, data) =>
               IF id \in DOMAIN productos
               THEN Parcial(productos[id], productos'[id], data, CamposProducto,
                            CamposProducto \ {"categoria"})
               ELSE last'.res = "not_found" /\ UNCHANGED db
       /\ last'.op = "update_venta" => \A id \in 1..Pocos + 1, data \in VentaUpdateAll :
            update_venta(id, data) =>
               IF id \in DOMAIN ventas
               THEN Parcial(ventas[id], ventas'[id], data, CamposVenta, CamposVenta)
               ELSE last'.res = "not_found" /\ UNCHANGED db
       /\ last'.op = "update_detalle" => \A id \in 1..Pocos + 1, data \in DetalleUpdateAll :
            update_detalle(id, data) =>
               IF id \in DOMAIN detalles
               THEN Parcial(detalles[id], detalles'[id], data, CamposDetalle,
                            CamposDetalle \ {"descuento", "cantidad"})
               ELSE last'.res = "not_found" /\ UNCHANGED db]_vars

(***************************************************************************)
(* C5 amended: an update of an existing row either fails with              *)
(* IntegrityError (a null for a NOT NULL column, a duplicate email or rut, *)
(* a cliente_id that does not exist) and changes nothing, or is committed, *)
(* and then every field other than modified_at that the body does not name *)
(* is as it was and every field it names holds the value supplied; an      *)
(* update of an id that does not exist answers not found and changes       *)
(* nothing.                                                                *)
(***************************************************************************)
C5_UpdateParcial ==
    [][/\ last'.op = "update_cliente" => \A id \in 1..Pocos + 1, data \in ClienteUpdateAll :
            update_cliente(id, data) =>
               IF id \notin DOMAIN clientes THEN last'.res = "not_found" /\ UNCHANGED db
               ELSE IF last'.res = "IntegrityError" THEN UNCHANGED db
               ELSE Parcial(clientes[id], clientes'[id], data,
                            CamposCliente \ {"modified_at"}, CamposCliente)
       /\ last'.op = "update_producto" =>
            \A id \in 1..Pocos + 1, data \in ProductoUpdateAll :
            update_producto(id, data) =>
               IF id \notin DOMAIN productos THEN last'.res = "not_found" /\ UNCHANGED db
               ELSE IF last'.res = "IntegrityError" THEN UNCHANGED db
               ELSE Parcial(productos[id], productos'[id], data,
                            CamposProducto \ {"modified_at"}, CamposProducto \ {"categoria"})
       /\ last'.op = "update_venta" => \A id \in 1..Pocos + 1, data \in VentaUpdateAll :
            update_venta(id, data) =>
               IF id \notin DOMAIN ventas THEN last'.res = "not_found" /\ UNCHANGED db
               ELSE IF last'.res = "IntegrityError" THEN UNCHANGED db
               ELSE Parcial(ventas[id], ventas'[id], data,
                            CamposVenta \ {"modified_at"}, CamposVenta)
       /\ last'.op = "update_detalle" => \A id \in 1..Pocos + 1, data \in DetalleUpdateAll :
            update_detalle(id, data) =>
               IF id \notin DOMAIN detalles THEN last'.res = "not_found" /\ UNCHANGED db
               ELSE IF last'.res = "IntegrityError" THEN UNCHANGED db
               ELSE Parcial(detalles[id], detalles'[id], data,
                            CamposDetalle \ {"modified_at"},
                            CamposDetalle \ {"descuento", "cantidad"})]_vars

\* A committed update renamed the product, stamped it with the later clock
\* and kept the category it was created with.
C5_Witness ==
    /\ last.op = "update_producto" /\ last.res = "ok" /\ last.n = 1
    /\ 1 \in DOMAIN productos
    /\ now = 1 /\ productos[1].nombre = "te" /\ productos[1].categoria = Null
    /\ productos[1].precio = 10 /\ productos[1].modified_at = 1

(***************************************************************************)
(* Line item requests step by step.  FastAPI runs each request in a thread *)
(* of its pool with a session of its own (get_db), and every session has   *)
(* its own connection to app.db.  The sqlite3 driver opens a transaction   *)
(* before the first INSERT, UPDATE or DELETE of a session and not before a *)
(* SELECT: a SELECT outside a transaction reads the committed file.  The   *)
(* first write takes the write lock of the file, which one connection      *)
(* holds at a time until its commit or rollback; a connection that finds   *)
(* it taken waits, and fails with OperationalError (database is locked)    *)
(* when the wait times out.  Writes are seen by the other connections at   *)
(* the commit.  A step of a session is one statement, or one flush, of     *)
(* crud.py.                                                                *)
(***************************************************************************)
Sesiones == 1..MaxSesiones

\* The tables as session s reads them: its own writes when it holds the
\* lock, the committed tables otherwise.
Vista(s) == IF cerrojo = s THEN pendiente ELSE [ventas |-> ventas, detalles |-> detalles]

\* Session s fails before its commit and what it wrote is rolled back.
Falla(s, op, res) ==
    /\ sesiones' = [sesiones EXCEPT ![s] = Ociosa]
    /\ last' = Resp(op, res, 0)
    /\ cerrojo' = IF cerrojo = s THEN 0 ELSE cerrojo
    /\ UNCHANGED <<ventas, detalles, pendiente>>

\* create_detalle up to its first flush: the INSERT opens the transaction.
detalle_insert(s, data) ==
    /\ sesiones[s].pc = "idle"
    /\ IF cerrojo # 0
       THEN Falla(s, "create_detalle", "OperationalError")
       ELSE IF data.venta_id \notin DOMAIN ventas \/ data.producto_id \notin DOMAIN productos
       THEN Falla(s, "create_detalle", "IntegrityError")
       ELSE /\ pendiente' =
                 [ventas |-> ventas,
                  detalles |-> Put(detalles, NextId(detalles),
                     [producto_id |-> data.producto_id, venta_id |-> data.venta_id,
                      precio |-> data.precio, descuento |-> Some(data.descuento),
                      cantidad |-> Some(data.cantidad), modified_at |-> now])]
            /\ cerrojo' = s
            /\ sesiones' = [sesiones EXCEPT ![s] =
                 [Ociosa EXCEPT !.pc = "suma", !.op = "create_detalle",
                                !.id = NextId(detalles), !.venta_id = data.venta_id]]
            /\ UNCHANGED <<ventas, detalles, last>>
    /\ UNCHANGED <<clientes, productos, now, reporte>>

\* get_detalle at the head of update_detalle (data the body) and of
\* delete_detalle: a SELECT outside any transaction.
detalle_get(s, op, detalle_id, data) ==
    /\ sesiones[s].pc = "idle"
    /\ IF detalle_id \notin DOMAIN Vista(s).detalles
       THEN /\ last' = Resp(op, "not_found", 0)
            /\ UNCHANGED sesiones
       ELSE /\ sesiones' = [sesiones EXCEPT ![s] =
                 [Ociosa EXCEPT !.pc = "flush", !.op = op, !.id = detalle_id,
                                !.venta_id = Vista(s).detalles[detalle_id].venta_id,
                                !.data = data,
                                !.cargado = Vista(s).detalles[detalle_id]]]
            /\ UNCHANGED last
    /\ UNCHANGED <<clientes, productos, ventas, detalles, now, reporte, cerrojo, pendiente>>

\* The setattr loop and db.flush() of update_detalle: the UPDATE carries the
\* columns whose value differs from the one loaded, and is left out when none
\* does.  It fails on a row that is gone (StaleDataError).
update_flush(s) ==
    LET r == sesiones[s]
        det == r.cargado
        obj == Setattr([precio |-> Some(det.precio), descuento |-> det.descuento,
                        cantidad |-> det.cantidad], r.data)
        igual == /\ obj.precio = Some(det.precio)
                 /\ obj.descuento = det.descuento
                 /\ obj.cantidad = det.cantidad
    IN  /\ r.pc = "flush" /\ r.op = "update_detalle"
        /\ IF igual
           THEN /\ sesiones' = [sesiones EXCEPT ![s].pc = "suma"]
                /\ UNCHANGED <<ventas, detalles, last, cerrojo, pendiente>>
           ELSE IF cerrojo # 0
           THEN Falla(s, r.op, "OperationalError")
           ELSE IF obj.precio = Null
           THEN Falla(s, r.op, "IntegrityError")
           ELSE IF r.id \notin DOMAIN detalles
           THEN Falla(s, r.op, "StaleDataError")
           ELSE /\ pendiente' =
                     [ventas |-> ventas,
                      detalles |-> Put(detalles, r.id,
                         [detalles[r.id] EXCEPT
                            !.precio = IF obj.precio = Some(det.precio) THEN @
                                       ELSE obj.precio[1],
                            !.descuento = IF obj.descuento = det.descuento THEN @
                                          ELSE obj.descuento,
                            !.cantidad = IF obj.cantidad = det.cantidad THEN @
                                         ELSE obj.cantidad,
                            !.modified_at = now])]
                /\ cerrojo' = s
                /\ sesiones' = [sesiones EXCEPT ![s].pc = "suma"]
                /\ UNCHANGED <<ventas, detalles, last>>
        /\ UNCHANGED <<clientes, productos, now, reporte>>

\* db.delete(det) and db.flush() of delete_detalle: the DELETE of a row that
\* is gone matches nothing and raises nothing.
delete_flush(s) ==
    LET r == sesiones[s]
    IN  /\ r.pc = "flush" /\ r.op = "delete_detalle"
        /\ IF cerrojo # 0
           THEN Falla(s, r.op, "OperationalError")
           ELSE /\ pendiente' = [ventas |-> ventas, detalles |-> Del(detalles, {r.id})]
                /\ cerrojo' = s
                /\ sesiones' = [sesiones EXCEPT ![s].pc = "suma"]
                /\ UNCHANGED <<ventas, detalles, last>>
        /\ UNCHANGED <<clientes, productos, now, reporte>>

\* The first query of _recalcular_total_venta: COALESCE(SUM(...), 0) over the
\* line items of the sale.
recalcular_suma(s) ==
    LET r == sesiones[s]
        ds == Vista(s).detalles
    IN  /\ r.pc = "suma"
        /\ sesiones' = [sesiones EXCEPT
              ![s].pc = "total",
              ![s].suma = Coalesce(SumSQL([d \in {x \in DOMAIN ds : ds[x].venta_id = r.venta_id}
                                             |-> SubtotalSQL(ds[d])]), 0)]
        /\ UNCHANGED <<clientes, productos, ventas, detalles, now, last, reporte,
                       cerrojo, pendiente>>

\* The second query of _recalcular_total_venta, venta.total = int(suma or 0)
\* and db.flush(): the UPDATE is emitted when the total differs from the one
\* just loaded, and opens the transaction when no write has yet.
recalcular_total(s) ==
    LET r == sesiones[s]
        vs == Vista(s).ventas
    IN  /\ r.pc = "total"
        /\ IF r.venta_id \notin DOMAIN vs \/ vs[r.venta_id].total = r.suma
           THEN /\ sesiones' = [sesiones EXCEPT ![s].pc = "commit"]
                /\ UNCHANGED <<ventas, detalles, last, cerrojo, pendiente>>
           ELSE IF cerrojo \notin {0, s}
           THEN Falla(s, r.op, "OperationalError")
           ELSE /\ pendiente' =
                     [ventas |-> Put(vs, r.venta_id,
                                     [vs[r.venta_id] EXCEPT !.total = r.suma,
                                                            !.modified_at = now]),
                      detalles |-> Vista(s).detalles]
                /\ cerrojo' = s
                /\ sesiones' = [sesiones EXCEPT ![s].pc = "commit"]
                /\ UNCHANGED <<ventas, detalles, last>>
        /\ UNCHANGED <<clientes, productos, now, reporte>>

\* db.commit(), and db.refresh of the line item in create_detalle and
\* update_detalle: the refresh of a row that is gone raises.  The handler
\* returns or raises and get_db closes the session.
detalle_commit(s) ==
    LET r == sesiones[s]
        v == Vista(s)
    IN  /\ r.pc = "commit"
        /\ ventas' = v.ventas
        /\ detalles' = v.detalles
        /\ cerrojo' = IF cerrojo = s THEN 0 ELSE cerrojo
        /\ sesiones' = [sesiones EXCEPT ![s] = Ociosa]
        /\ last' = Resp(r.op,
                        IF r.op # "delete_detalle" /\ r.id \notin DOMAIN v.detalles
                        THEN "InvalidRequestError" ELSE "ok",
                        Escritas(ventas, v.ventas) + Escritas(detalles, v.detalles)
                           + Cardinality(DOMAIN detalles \ DOMAIN v.detalles))
        /\ UNCHANGED <<clientes, productos, now, reporte, pendiente>>

(***************************************************************************)
(* SpecSesiones: a customer, a product and sales created by whole          *)
(* requests; line items created, updated and deleted by sessions that run  *)
(* step by step, side by side.  Every price, discount and quantity is an   *)
(* integer.                                                                *)
(***************************************************************************)
LineasSesiones == Lineas(1..Pocos, {100}, {0}, {1})
DetalleUpdateSesiones == Bodies([cantidad : {Some(2)}], {"cantidad"})

NextSesiones ==
    \/ \E data \in UnCliente :
          cerrojo = 0 /\ NextId(clientes) <= Pocos /\ create_cliente(data)
    \/ \E data \in UnProducto :
          cerrojo = 0 /\ NextId(productos) <= Pocos /\ create_producto(data)
    \/ \E lote \in Lotes(LineasSesiones) :
          /\ cerrojo = 0
          /\ NextId(ventas) <= MaxVentas
          /\ NextId(detalles) + Len(lote) - 1 <= MaxDetalles
          /\ create_venta([cliente_id |-> 1, detalles |-> lote])
    \/ \E s \in Sesiones, v \in 1..MaxVentas, l \in LineasSesiones :
          /\ NextId(detalles) <= MaxDetalles
          /\ detalle_insert(s, [producto_id |-> l.producto_id, venta_id |-> v,
                                precio |-> l.precio, descuento |-> l.descuento,
                                cantidad |-> l.cantidad])
    \/ \E s \in Sesiones, id \in 1..MaxDetalles, data \in DetalleUpdateSesiones :
          detalle_get(s, "update_detalle", id, data)
    \/ \E s \in Sesiones, id \in 1..MaxDetalles :
          detalle_get(s, "delete_detalle", id, <<>>)
    \/ \E s \in Sesiones : update_flush(s)
    \/ \E s \in Sesiones : delete_flush(s)
    \/ \E s \in Sesiones : recalcular_suma(s)
    \/ \E s \in Sesiones : recalcular_total(s)
    \/ \E s \in Sesiones : detalle_commit(s)

SpecSesiones == Init /\ [][NextSesiones]_vars

\* The sum of (precio - descuento) * cantidad over the line items of the sale
\* v in the table ds, and over its committed line items.
SumaEn(ds, v) ==
    Suma({d \in DOMAIN ds : ds[d].venta_id = v},
         [d \in DOMAIN ds |-> (ds[d].precio - ds[d].descuento[1]) * ds[d].cantidad[1]])
SumaDeVenta(v) == SumaEn(detalles, v)

(***************************************************************************)
(* C11: the write of a line item and the recomputation of the total of its *)
(* sale are one transaction, so that in every reachable state, whatever    *)
(* the sessions in flight, the committed tables a request reads hold for   *)
(* every sale the total that is the sum over its committed line items:     *)
(* never a line item change without the total that goes with it.           *)
(***************************************************************************)
C11_Transaccional ==
    \A v \in DOMAIN ventas : ventas[v].total = SumaDeVenta(v)

\* The commit of a session that wrote a line item carries, in the same step,
\* the total of the sale the session loaded, recomputed over the line items
\* the commit leaves.
CommitAtomico ==
    [][\A s \in Sesiones :
         (/\ sesiones[s].pc = "commit" /\ sesiones'[s].pc = "idle"
          /\ detalles' # detalles
          /\ sesiones[s].venta_id \in DOMAIN ventas')
            => ventas'[sesiones[s].venta_id].total = SumaEn(detalles', sesiones[s].venta_id)]_vars

(***************************************************************************)
(* C14: whenever no line item request is in flight (every transaction has  *)
(* committed or failed), the stored total of every sale equals the sum of  *)
(* (precio - descuento) * cantidad over its line items, under every        *)
(* interleaving of the requests' steps.                                    *)
(***************************************************************************)
C14_Serializadas ==
    (\A s \in Sesiones : sesiones[s].pc = "idle")
       => \A v \in DOMAIN ventas : ventas[v].total = SumaDeVenta(v)

\* A step of a session leaves the total of every sale other than its own as
\* it was.
VentasIndependientes ==
    [][\A s \in Sesiones :
         sesiones[s].pc # "idle" /\ sesiones'[s] # sesiones[s]
            => \A v \in DOMAIN ventas \ {sesiones[s].venta_id} :
                  v \in DOMAIN ventas' /\ ventas'[v].total = ventas[v].total]_vars

====
